---- MODULE Spec2Model ----
(***************************************************************************)
(* CarPi-Settings: the ConfigStore contract and its three backends          *)
(* (MemoryStore, IniStore, RedisStore) of src/carpisettings/__init__.py.    *)
(*                                                                         *)
(* Python strings are sequences of one-character strings, so that          *)
(* splitting, case folding, stripping and interpolation are computed and    *)
(* not assumed.  Python values are records with a type tag (PyStr, PyInt,  *)
(* ...); the outcome of a call is Return(value) or Raise(exception name).   *)
(* The calls into the standard library (dict, int, float, configparser)     *)
(* are modelled by what CPython does on them.                               *)
(***************************************************************************)
EXTENDS Integers, Sequences, FiniteSets, TLC

VARIABLES
    dict,      \* MemoryStore._dict: key -> value as given
    file,      \* the INI file on disk: a sequence of text lines
    inst,      \* the IniStore instances: [open, config]
    writes,    \* number of IniStore.write_value calls made so far (bounded)
    rstore,    \* the RedisStore under construction / constructed
    rdb,       \* the Redis server's keyspace: key -> stored string
    last,      \* the last call made and its outcome
    written,   \* history: per store, key -> str(value) of its last successful write
    sync,      \* history: the IniStores loaded from or saved to the file's present
               \* content and not written since
    saved      \* history: per IniStore, `written` as it was at its last save_config

vars == <<dict, file, inst, writes, rstore, rdb, last, written, sync, saved>>

\* ------------------------------------------------------------------ bounds
MaxWrites == 2

\* ------------------------------------------------------------ Python values
NoStr == <<>>

PyNone == [t |-> "None", n |-> 0, e |-> 0, s |-> NoStr, b |-> FALSE]
PyStr(s) == [t |-> "str", n |-> 0, e |-> 0, s |-> s, b |-> FALSE]
PyInt(n) == [t |-> "int", n |-> n, e |-> 0, s |-> NoStr, b |-> FALSE]
\* a float is n / 10^e
PyFloat(n, e) == [t |-> "float", n |-> n, e |-> e, s |-> NoStr, b |-> FALSE]
PyBool(b) == [t |-> "bool", n |-> 0, e |-> 0, s |-> NoStr, b |-> b]
PyBytes(s) == [t |-> "bytes", n |-> 0, e |-> 0, s |-> s, b |-> FALSE]

Return(v) == [kind |-> "return", val |-> v, exc |-> ""]
Raise(x) == [kind |-> "raise", val |-> PyNone, exc |-> x]

\* ---------------------------------------------------------- string helpers
Digits == <<"0", "1", "2", "3", "4", "5", "6", "7", "8", "9">>
UpperChars == <<"A", "B", "C", "D", "E", "F", "G", "H", "I", "J", "K", "L", "M",
                "N", "O", "P", "Q", "R", "S", "T", "U", "V", "W", "X", "Y", "Z">>
LowerChars == <<"a", "b", "c", "d", "e", "f", "g", "h", "i", "j", "k", "l", "m",
                "n", "o", "p", "q", "r", "s", "t", "u", "v", "w", "x", "y", "z">>

IsDigit(c) == \E i \in 1..10 : Digits[i] = c
DigitVal(c) == (CHOOSE i \in 1..10 : Digits[i] = c) - 1
DigitChar(d) == Digits[d + 1]

\* str.lower() on one character and on a string
LowerChar(c) ==
    IF \E i \in 1..26 : UpperChars[i] = c
    THEN LowerChars[CHOOSE i \in 1..26 : UpperChars[i] = c]
    ELSE c
Lower(s) == [i \in 1..Len(s) |-> LowerChar(s[i])]

\* str.find(c): the first index of c in s (1-based), 0 when there is none
Find(s, c) ==
    IF \E i \in 1..Len(s) : s[i] = c
    THEN CHOOSE i \in 1..Len(s) : s[i] = c /\ \A j \in 1..(i - 1) : s[j] # c
    ELSE 0

Contains(s, c) == \E i \in 1..Len(s) : s[i] = c

\* s[from..] and s[..to] in 1-based inclusive positions
From(s, i) == SubSeq(s, i, Len(s))
Upto(s, i) == SubSeq(s, 1, i)

IsSpace(c) == c = " "

\* str.strip()
RECURSIVE LStrip(_)
LStrip(s) == IF s # <<>> /\ IsSpace(Head(s)) THEN LStrip(Tail(s)) ELSE s
RECURSIVE RStrip(_)
RStrip(s) ==
    IF s # <<>> /\ IsSpace(s[Len(s)]) THEN RStrip(SubSeq(s, 1, Len(s) - 1)) ELSE s
Strip(s) == RStrip(LStrip(s))

\* the decimal digits of a natural number
RECURSIVE NatToStr(_)
NatToStr(n) ==
    IF n < 10 THEN <<DigitChar(n)>>
    ELSE NatToStr(n \div 10) \o <<DigitChar(n % 10)>>

\* str(value) for the values the callers pass
Str(v) ==
    CASE v.t = "str" -> v.s
      [] v.t = "int" -> IF v.n < 0 THEN <<"-">> \o NatToStr(0 - v.n) ELSE NatToStr(v.n)
      [] v.t = "bool" -> IF v.b THEN <<"T", "r", "u", "e">> ELSE <<"F", "a", "l", "s", "e">>
      [] v.t = "None" -> <<"N", "o", "n", "e">>
      [] v.t = "bytes" -> <<"b", "'">> \o v.s \o <<"'">>
      [] OTHER -> v.s

\* the truth value Python's "if v" takes
Truthy(v) ==
    CASE v.t \in {"str", "bytes"} -> v.s # <<>>
      [] v.t = "int" -> v.n # 0
      [] v.t = "bool" -> v.b
      [] v.t = "None" -> FALSE
      [] OTHER -> TRUE

\* ------------------------------------------------ int(), float() on a string
AllDigits(s) == s # <<>> /\ \A i \in 1..Len(s) : IsDigit(s[i])

RECURSIVE DigitsVal(_)
DigitsVal(s) ==
    IF s = <<>> THEN 0 ELSE 10 * DigitsVal(SubSeq(s, 1, Len(s) - 1)) + DigitVal(s[Len(s)])

Unsigned(s) == IF s # <<>> /\ Head(s) \in {"+", "-"} THEN Tail(s) ELSE s
Sign(s) == IF s # <<>> /\ Head(s) = "-" THEN 0 - 1 ELSE 1

\* int(s): optional surrounding blanks, optional sign, decimal digits (the
\* strings of this model hold no "_" and no other white space)
IsInt(s) == AllDigits(Unsigned(Strip(s)))
IntOf(s) == Sign(Strip(s)) * DigitsVal(Unsigned(Strip(s)))
ParseInt(s) == IF IsInt(s) THEN Return(PyInt(IntOf(s))) ELSE Raise("ValueError")

\* float(s): as int(s), with an optional fraction after one "." (the strings
\* of this model hold no exponent, "inf" or "nan")
IntPart(u) == IF Find(u, ".") = 0 THEN u ELSE Upto(u, Find(u, ".") - 1)
FracPart(u) == IF Find(u, ".") = 0 THEN <<>> ELSE From(u, Find(u, ".") + 1)
IsFloat(s) ==
    LET u == Unsigned(Strip(s))
    IN  /\ \A i \in 1..Len(IntPart(u)) : IsDigit(IntPart(u)[i])
        /\ \A i \in 1..Len(FracPart(u)) : IsDigit(FracPart(u)[i])
        /\ IntPart(u) \o FracPart(u) # <<>>
\* the fraction without its trailing zeros: 1.50 and 1.5 are one float
RECURSIVE DropTrailingZeros(_)
DropTrailingZeros(f) ==
    IF f # <<>> /\ f[Len(f)] = "0" THEN DropTrailingZeros(SubSeq(f, 1, Len(f) - 1)) ELSE f
FloatOf(s) ==
    LET u == Unsigned(Strip(s))
        frac == DropTrailingZeros(FracPart(u))
    IN  PyFloat(Sign(Strip(s)) * DigitsVal(IntPart(u) \o frac), Len(frac))
ParseFloat(s) == IF IsFloat(s) THEN Return(FloatOf(s)) ELSE Raise("ValueError")

\* -------------------------------------------------- finite maps (Python dict)
EmptyMap == [x \in {} |-> NoStr]
Put(f, k, v) == [x \in (DOMAIN f) \cup {k} |-> IF x = k THEN v ELSE f[x]]
\* ChainMap(front, back): front's entries hide back's
Chain(front, back) ==
    [x \in (DOMAIN front) \cup (DOMAIN back) |-> IF x \in DOMAIN front THEN front[x] ELSE back[x]]

\* a set as a sequence, in a fixed order
RECURSIVE SeqOf(_)
SeqOf(S) ==
    IF S = {} THEN <<>>
    ELSE LET x == CHOOSE y \in S : TRUE IN <<x>> \o SeqOf(S \ {x})

\* ------------------------------------------- configparser.ConfigParser model
\* What the calls of lines 101-104, 117-132, 137 and 142 do.  A document is
\* [defaults, sections]: the options of the DEFAULT section and, per section
\* name, the options of that section; every option maps to its raw text.
DEFAULTSECT == <<"D", "E", "F", "A", "U", "L", "T">>
MAX_INTERPOLATION_DEPTH == 10

NewConfig == [defaults |-> EmptyMap, sections |-> [x \in {} |-> EmptyMap]]

\* ConfigParser.optionxform: option names are lower-cased
OptionXForm(option) == Lower(option)

\* the length of a match of %\(([^)]+)\)s at the start of s, 0 when none
RefMatchLen(s) ==
    LET close == Find(s, ")")
    IN  IF /\ Len(s) >= 5
           /\ s[1] = "%"
           /\ s[2] = "("
           /\ close >= 4
           /\ close + 1 <= Len(s)
           /\ s[close + 1] = "s"
        THEN close + 1
        ELSE 0
RefName(s) == SubSeq(s, 3, Find(s, ")") - 1)

\* value.replace('%%', '')
RECURSIVE DropEscapes(_)
DropEscapes(s) ==
    IF s = <<>> THEN <<>>
    ELSE IF Len(s) >= 2 /\ s[1] = "%" /\ s[2] = "%" THEN DropEscapes(From(s, 3))
    ELSE <<Head(s)>> \o DropEscapes(Tail(s))

\* _KEYCRE.sub('', value)
RECURSIVE DropRefs(_)
DropRefs(s) ==
    IF s = <<>> THEN <<>>
    ELSE IF RefMatchLen(s) > 0 THEN DropRefs(From(s, RefMatchLen(s) + 1))
    ELSE <<Head(s)>> \o DropRefs(Tail(s))

\* BasicInterpolation.before_set: the value is refused when a "%" is left
BadInterpolationSyntax(value) == Contains(DropRefs(DropEscapes(value)), "%")

\* BasicInterpolation._interpolate_some: [exc, s]; exc = "" when it returns
RECURSIVE InterpolateSome(_, _, _)
InterpolateSome(rest, map, depth) ==
    IF depth > MAX_INTERPOLATION_DEPTH THEN [exc |-> "InterpolationDepthError", s |-> NoStr]
    ELSE IF rest = <<>> THEN [exc |-> "", s |-> NoStr]
    ELSE LET p == Find(rest, "%") IN
      IF p = 0 THEN [exc |-> "", s |-> rest]
      ELSE IF p > 1 THEN
        LET tl == InterpolateSome(From(rest, p), map, depth)
        IN  [exc |-> tl.exc, s |-> Upto(rest, p - 1) \o tl.s]
      ELSE IF Len(rest) >= 2 /\ rest[2] = "%" THEN
        LET tl == InterpolateSome(From(rest, 3), map, depth)
        IN  [exc |-> tl.exc, s |-> <<"%">> \o tl.s]
      ELSE IF Len(rest) >= 2 /\ rest[2] = "(" THEN
        IF RefMatchLen(rest) = 0 THEN [exc |-> "InterpolationSyntaxError", s |-> NoStr]
        ELSE LET var == OptionXForm(RefName(rest)) IN
          IF var \notin DOMAIN map
          THEN [exc |-> "InterpolationMissingOptionError", s |-> NoStr]
          ELSE LET hd == IF Contains(map[var], "%")
                         THEN InterpolateSome(map[var], map, depth + 1)
                         ELSE [exc |-> "", s |-> map[var]]
               IN  IF hd.exc # "" THEN hd
                   ELSE LET tl == InterpolateSome(From(rest, RefMatchLen(rest) + 1), map, depth)
                        IN  [exc |-> tl.exc, s |-> hd.s \o tl.s]
      ELSE [exc |-> "InterpolationSyntaxError", s |-> NoStr]

\* BasicInterpolation.before_get
BeforeGet(value, map) ==
    LET r == InterpolateSome(value, map, 1)
    IN  IF r.exc = "" THEN Return(PyStr(r.s)) ELSE Raise(r.exc)

HasSection(c, section) == section \in DOMAIN c.sections
\* RawConfigParser._unify_values: the section's options over the defaults
UnifyValues(c, section) ==
    IF HasSection(c, section) THEN Chain(c.sections[section], c.defaults) ELSE c.defaults

\* ConfigParser.get(section, option) with no fallback: the value or the error
ConfigGetRaw(c, section, option) ==
    IF ~HasSection(c, section) /\ section # DEFAULTSECT THEN Raise("NoSectionError")
    ELSE IF OptionXForm(option) \notin DOMAIN UnifyValues(c, section) THEN Raise("NoOptionError")
    ELSE BeforeGet(UnifyValues(c, section)[OptionXForm(option)], UnifyValues(c, section))

IsMissing(r) == r.kind = "raise" /\ r.exc \in {"NoSectionError", "NoOptionError"}

\* (mutant) get without the fallback: a missing section or option raises
ConfigGetNoFallback(c, section, option, fallback) == ConfigGetRaw(c, section, option)

\* ConfigParser.get(section, option, fallback=fallback)
ConfigGet(c, section, option, fallback) ==
    LET r == ConfigGetRaw(c, section, option)
    IN  IF IsMissing(r) THEN Return(fallback) ELSE r

\* RawConfigParser._convert_to_boolean
TrueWords == {<<"1">>, <<"y", "e", "s">>, <<"t", "r", "u", "e">>, <<"o", "n">>}
FalseWords == {<<"0">>, <<"n", "o">>, <<"f", "a", "l", "s", "e">>, <<"o", "f", "f">>}
ConvertToBoolean(s) ==
    IF Lower(s) \in TrueWords THEN Return(PyBool(TRUE))
    ELSE IF Lower(s) \in FalseWords THEN Return(PyBool(FALSE))
    ELSE Raise("ValueError")

Convert(conv, s) ==
    CASE conv = "int" -> ParseInt(s)
      [] conv = "float" -> ParseFloat(s)
      [] OTHER -> ConvertToBoolean(s)

\* (mutant) a value that does not convert gives the fallback as well
ConfigGetConvSwallowing(c, section, option, conv, fallback) ==
    LET r == ConfigGetRaw(c, section, option)
    IN  IF IsMissing(r) THEN Return(fallback)
        ELSE IF r.kind = "raise" THEN r
        ELSE IF Convert(conv, r.val.s).kind = "raise" THEN Return(fallback)
        ELSE Convert(conv, r.val.s)

\* RawConfigParser._get_conv: getint / getfloat / getboolean with a fallback
ConfigGetConv(c, section, option, conv, fallback) ==
    LET r == ConfigGetRaw(c, section, option)
    IN  IF IsMissing(r) THEN Return(fallback)
        ELSE IF r.kind = "raise" THEN r
        ELSE Convert(conv, r.val.s)

\* (mutant) set creates a section that is missing
ConfigSetCreating(c, section, option, value) ==
    IF value # <<>> /\ BadInterpolationSyntax(value)
    THEN [res |-> Raise("ValueError"), config |-> c]
    ELSE IF section = <<>> \/ section = DEFAULTSECT
    THEN [res |-> Return(PyNone),
          config |-> [c EXCEPT !.defaults = Put(c.defaults, OptionXForm(option), value)]]
    ELSE [res |-> Return(PyNone),
          config |-> [c EXCEPT !.sections =
                         Put(c.sections, section,
                             Put(IF HasSection(c, section) THEN c.sections[section] ELSE EmptyMap,
                                 OptionXForm(option), value))]]

\* ConfigParser.set(section, option, value): [res, config]
ConfigSet(c, section, option, value) ==
    IF value # <<>> /\ BadInterpolationSyntax(value)
    THEN [res |-> Raise("ValueError"), config |-> c]
    ELSE IF section = <<>> \/ section = DEFAULTSECT
    THEN [res |-> Return(PyNone),
          config |-> [c EXCEPT !.defaults = Put(c.defaults, OptionXForm(option), value)]]
    ELSE IF ~HasSection(c, section)
    THEN [res |-> Raise("NoSectionError"), config |-> c]
    ELSE [res |-> Return(PyNone),
          config |-> [c EXCEPT !.sections[section] =
                         Put(c.sections[section], OptionXForm(option), value)]]

\* RawConfigParser._write_section: "[name]", one "key = value" line per
\* option, and a blank line
WriteSection(name, items) ==
    <<(<<"[">> \o name \o <<"]">>)>>
    \o [i \in 1..Cardinality(DOMAIN items) |->
           LET key == SeqOf(DOMAIN items)[i] IN key \o <<" ", "=", " ">> \o items[key]]
    \o <<NoStr>>

RECURSIVE WriteSections(_, _)
WriteSections(sections, names) ==
    IF names = <<>> THEN <<>>
    ELSE WriteSection(Head(names), sections[Head(names)]) \o WriteSections(sections, Tail(names))

\* RawConfigParser.write: the DEFAULT section when it has options, then
\* every section.  ConfigParser writes sections and options in insertion
\* order; the order decides no read, so the lines come in a fixed order.
ConfigWrite(c) ==
    (IF DOMAIN c.defaults # {} THEN WriteSection(DEFAULTSECT, c.defaults) ELSE <<>>)
    \o WriteSections(c.sections, SeqOf(DOMAIN c.sections))

\* the last index of c in s, 0 when there is none
FindLast(s, c) ==
    IF Contains(s, c) THEN CHOOSE i \in 1..Len(s) : s[i] = c /\ \A j \in (i + 1)..Len(s) : s[j] # c
    ELSE 0

\* the first "=" or ":" of an option line
DelimPos(line) ==
    LET eq == Find(line, "=")
        co == Find(line, ":")
    IN  IF eq = 0 THEN co ELSE IF co = 0 THEN eq ELSE IF eq < co THEN eq ELSE co

\* RawConfigParser._read, one line at a time: cur is the section being
\* filled ("" before any header).  A blank line or a line starting with "#"
\* or ";" is skipped, "[name]" opens a section, any other line is split at
\* its first "=" or ":" into an option name (right-stripped, lower-cased)
\* and a value (stripped).  The files of this model hold no continuation
\* line, no duplicate and no line before the first header, so the errors
\* and the joining of continuation lines do not arise.
RECURSIVE ReadLines(_, _, _)
ReadLines(lines, c, cur) ==
    IF lines = <<>> THEN c
    ELSE LET value == Strip(Head(lines)) IN
      IF value = <<>> \/ Head(value) \in {"#", ";"} THEN ReadLines(Tail(lines), c, cur)
      ELSE IF Head(value) = "[" /\ FindLast(value, "]") > 2 THEN
        LET name == SubSeq(value, 2, FindLast(value, "]") - 1) IN
          IF name = DEFAULTSECT THEN ReadLines(Tail(lines), c, name)
          ELSE ReadLines(Tail(lines),
                         [c EXCEPT !.sections = Put(c.sections, name, EmptyMap)], name)
      ELSE IF DelimPos(value) = 0 THEN ReadLines(Tail(lines), c, cur)
      ELSE LET optname == OptionXForm(RStrip(Upto(value, DelimPos(value) - 1)))
               optval == Strip(From(value, DelimPos(value) + 1))
           IN  IF cur = DEFAULTSECT
               THEN ReadLines(Tail(lines),
                              [c EXCEPT !.defaults = Put(c.defaults, optname, optval)], cur)
               ELSE ReadLines(Tail(lines),
                              [c EXCEPT !.sections[cur] = Put(c.sections[cur], optname, optval)],
                              cur)

\* ConfigParser.read_file on a fresh parser
ConfigRead(lines) == ReadLines(lines, NewConfig, NoStr)

\* --------------------------------------------------------------- the inputs
K_db_k == <<"d", "b", ".", "k">>
K_db_K == <<"d", "b", ".", "K">>
K_db_host == <<"d", "b", ".", "h", "o", "s", "t">>
K_a_b_c == <<"a", ".", "b", ".", "c">>
K_dot_k == <<".", "k">>
K_default_k == DEFAULTSECT \o <<".", "k">>
K_nosep == <<"n", "o", "s", "e", "p">>

IniKeys == {K_db_k, K_db_host, K_a_b_c, K_dot_k, K_default_k, K_nosep}

V_v == PyStr(<<"v">>)
V_one == PyInt(1)
V_blank_v == PyStr(<<" ", "v">>)
V_escaped == PyStr(<<"5", "%", "%">>)
V_percent == PyStr(<<"5", "%">>)
V_ref == PyStr(<<"%", "(", "k", ")", "s">>)

IniValues == {V_v, V_percent, V_ref}

D == PyStr(<<"D">>)
Defaults == {D}

Mem == 0
Stores == {1, 2}
Red == 3

\* the files an IniStore may be opened on at the start
File_db == << <<"[", "d", "b", "]">>, <<"k", " ", "=", " ", "v">>, NoStr >>
File_default ==
    << <<"[", "D", "E", "F", "A", "U", "L", "T", "]">>, <<"h", "o", "s", "t", " ", "=", " ", "1">>,
       NoStr, <<"[", "d", "b", "]">>, <<"k", " ", "=", " ", "y", "e", "s">>, NoStr >>
InitialFiles == {File_db, File_default}

NoCall == [op |-> "", self |-> Mem, key |-> NoStr, value |-> PyNone, default |-> PyNone,
           result |-> Return(PyNone)]
Call(op, self, key, value, default, result) ==
    [op |-> op, self |-> self, key |-> key, value |-> value, default |-> default,
     result |-> result]

\* ------------------------------------------------------------------ IniStore
\* (mutant) the key is split at its last "."
ParseKeyLastDot(key) ==
    LET dot == FindLast(key, ".")
    IN  IF dot = 0 THEN [ok |-> FALSE, sec |-> NoStr, field |-> NoStr]
        ELSE [ok |-> TRUE, sec |-> Upto(key, dot - 1), field |-> From(key, dot + 1)]

\* IniStore._parse_key: [ok, sec, field]; key.index('.') raises ValueError
ParseKey(key) ==
    LET dot == Find(key, ".")
    IN  IF dot = 0 THEN [ok |-> FALSE, sec |-> NoStr, field |-> NoStr]
        ELSE [ok |-> TRUE, sec |-> Upto(key, dot - 1), field |-> From(key, dot + 1)]

\* IniStore.read_value on a document
IniRead(c, key, default) ==
    IF ~ParseKey(key).ok THEN Raise("ValueError")
    ELSE ConfigGet(c, ParseKey(key).sec, ParseKey(key).field, default)

\* IniStore.read_int_value / read_float_value / read_bool_value on a document
IniReadConv(c, key, conv, default) ==
    IF ~ParseKey(key).ok THEN Raise("ValueError")
    ELSE ConfigGetConv(c, ParseKey(key).sec, ParseKey(key).field, conv, default)

\* IniStore.write_value on a document: [res, config]
IniWrite(c, key, value) ==
    IF ~ParseKey(key).ok THEN [res |-> Raise("ValueError"), config |-> c]
    ELSE ConfigSet(c, ParseKey(key).sec, ParseKey(key).field, Str(value))

IniUnchangedOthers == UNCHANGED <<dict, rstore, rdb>>

\* IniStore.__init__: load the whole file into a new document
IniInit(i) ==
    /\ inst' = [inst EXCEPT ![i] = [open |-> TRUE, config |-> ConfigRead(file)]]
    /\ last' = Call("__init__", i, NoStr, PyNone, PyNone, Return(PyNone))
    /\ written' = [written EXCEPT ![i] = EmptyMap]
    /\ sync' = sync \cup {i}
    /\ saved' = [saved EXCEPT ![i] = EmptyMap]
    /\ UNCHANGED <<file, writes>>
    /\ IniUnchangedOthers

IniReadValue(i, key, default) ==
    /\ inst[i].open
    /\ last' = Call("read_value", i, key, PyNone, default, IniRead(inst[i].config, key, default))
    /\ UNCHANGED <<file, inst, writes, written, sync, saved>>
    /\ IniUnchangedOthers

IniReadTyped(i, key, conv, default) ==
    /\ inst[i].open
    /\ last' = Call(conv, i, key, PyNone, default,
                    IniReadConv(inst[i].config, key, conv, default))
    /\ UNCHANGED <<file, inst, writes, written, sync, saved>>
    /\ IniUnchangedOthers

IniReadIntValue(i, key, default) == IniReadTyped(i, key, "int", default)
IniReadFloatValue(i, key, default) == IniReadTyped(i, key, "float", default)
IniReadBoolValue(i, key, default) == IniReadTyped(i, key, "bool", default)

\* (mutant) write_value that also saves the document
IniWriteValueAutoSave(i, key, value) ==
    /\ inst[i].open
    /\ writes < MaxWrites
    /\ writes' = writes + 1
    /\ LET w == IniWrite(inst[i].config, key, value) IN
        /\ inst' = [inst EXCEPT ![i].config = w.config]
        /\ file' = ConfigWrite(w.config)
        /\ last' = Call("write_value", i, key, value, PyNone, w.res)
        /\ written' = IF w.res.kind = "return"
                      THEN [written EXCEPT ![i] = Put(written[i], key, Str(value))]
                      ELSE written
        /\ sync' = IF w.res.kind = "return" THEN sync \ {i} ELSE sync
    /\ UNCHANGED saved
    /\ IniUnchangedOthers

IniWriteValue(i, key, value) ==
    /\ inst[i].open
    /\ writes < MaxWrites
    /\ writes' = writes + 1
    /\ LET w == IniWrite(inst[i].config, key, value) IN
        /\ inst' = [inst EXCEPT ![i].config = w.config]
        /\ last' = Call("write_value", i, key, value, PyNone, w.res)
        /\ written' = IF w.res.kind = "return"
                      THEN [written EXCEPT ![i] = Put(written[i], key, Str(value))]
                      ELSE written
        /\ sync' = IF w.res.kind = "return" THEN sync \ {i} ELSE sync
    /\ UNCHANGED <<file, saved>>
    /\ IniUnchangedOthers

\* (mutant) save_config that keeps what the file holds and the document lacks
MergeConfig(old, new) ==
    [defaults |-> Chain(new.defaults, old.defaults),
     sections |-> [x \in (DOMAIN old.sections) \cup (DOMAIN new.sections) |->
                     Chain(IF x \in DOMAIN new.sections THEN new.sections[x] ELSE EmptyMap,
                           IF x \in DOMAIN old.sections THEN old.sections[x] ELSE EmptyMap)]]
IniSaveConfigMerging(i) ==
    /\ inst[i].open
    /\ file' = ConfigWrite(MergeConfig(ConfigRead(file), inst[i].config))
    /\ last' = Call("save_config", i, NoStr, PyNone, PyNone, Return(PyNone))
    /\ sync' = {i}
    /\ saved' = [saved EXCEPT ![i] = written[i]]
    /\ UNCHANGED <<inst, writes, written>>
    /\ IniUnchangedOthers

\* IniStore.save_config: overwrite the file with the whole document
IniSaveConfig(i) ==
    /\ inst[i].open
    /\ file' = ConfigWrite(inst[i].config)
    /\ last' = Call("save_config", i, NoStr, PyNone, PyNone, Return(PyNone))
    /\ sync' = {i}
    /\ saved' = [saved EXCEPT ![i] = written[i]]
    /\ UNCHANGED <<inst, writes, written>>
    /\ IniUnchangedOthers

\* the calls on IniStores `stores` with the given inputs
IniCalls(stores, keys, values, defaults) ==
    \E i \in stores :
        \/ IniInit(i)
        \/ IniSaveConfig(i)
        \/ \E key \in keys :
            \/ \E value \in values : IniWriteValue(i, key, value)
            \/ \E default \in defaults :
                \/ IniReadValue(i, key, default)
                \/ IniReadIntValue(i, key, default)
                \/ IniReadFloatValue(i, key, default)
                \/ IniReadBoolValue(i, key, default)

\* ------------------------------------------------- ConfigStore (generic part)
\* int(v), float(v) and v == "1" on the value read_value returned
Coerce(conv, v) ==
    CASE conv = "bool" -> Return(PyBool(v = PyStr(<<"1">>)))
      [] conv = "int" /\ v.t = "str" -> ParseInt(v.s)
      [] conv = "float" /\ v.t = "str" -> ParseFloat(v.s)
      [] conv = "int" /\ v.t = "int" -> Return(v)
      [] conv = "float" /\ v.t = "int" -> Return(PyFloat(v.n, 0))
      [] conv = "int" /\ v.t = "bool" -> Return(PyInt(IF v.b THEN 1 ELSE 0))
      [] conv = "float" /\ v.t = "bool" -> Return(PyFloat(IF v.b THEN 1 ELSE 0, 0))
      [] OTHER -> Raise("TypeError")

\* ConfigStore.read_int_value / read_float_value / read_bool_value, given the
\* outcome r of self.read_value(key): an exception propagates, None gives the
\* default, anything else is converted
GenericRead(conv, r, default) ==
    IF r.kind = "raise" THEN r
    ELSE IF r.val # PyNone THEN Coerce(conv, r.val)
    ELSE Return(default)

\* --------------------------------------------------------------- MemoryStore
\* dict.get(key, default=default): dict.get takes no keyword arguments
DictGetKeyword(d, key, default) == Raise("TypeError")

\* MemoryStore.read_value on the dictionary
MemRead(d, key, default) == DictGetKeyword(d, key, default)

MemUnchangedOthers == UNCHANGED <<file, inst, writes, rstore, rdb, sync, saved>>

MemReadValue(key, default) ==
    /\ last' = Call("read_value", Mem, key, PyNone, default, MemRead(dict, key, default))
    /\ UNCHANGED <<dict, written>>
    /\ MemUnchangedOthers

MemReadTyped(key, conv, default) ==
    /\ last' = Call(conv, Mem, key, PyNone, default,
                    GenericRead(conv, MemRead(dict, key, PyNone), default))
    /\ UNCHANGED <<dict, written>>
    /\ MemUnchangedOthers

MemWriteValue(key, value) ==
    /\ dict' = Put(dict, key, value)
    /\ last' = Call("write_value", Mem, key, value, PyNone, Return(PyNone))
    /\ written' = [written EXCEPT ![Mem] = Put(written[Mem], key, Str(value))]
    /\ MemUnchangedOthers

\* MemoryStore.save_config: a warning, nothing else
MemSaveConfig ==
    /\ last' = Call("save_config", Mem, NoStr, PyNone, PyNone, Return(PyNone))
    /\ UNCHANGED <<dict, written>>
    /\ MemUnchangedOthers

MemKeys == {<<"a">>, <<"b">>, K_db_k}
MemValues == {V_v, V_one, PyBool(TRUE), PyStr(NoStr)}

NextMem ==
    \/ MemSaveConfig
    \/ \E key \in MemKeys :
        \/ \E value \in MemValues : MemWriteValue(key, value)
        \/ \E default \in {PyNone, D} :
            \/ MemReadValue(key, default)
            \/ \E conv \in {"int", "float", "bool"} : MemReadTyped(key, conv, default)

\* ---------------------------------------------------------------- RedisStore
NoHandle == [via |-> "None", url |-> PyNone, host |-> PyNone, port |-> PyNone,
             db |-> PyNone, password |-> PyNone, decode |-> FALSE]
\* a client the caller built; decode is its decode_responses setting
CallerHandle(decode) == [NoHandle EXCEPT !.via = "caller", !.decode = decode]

\* an argument left out of the call
Omitted == [t |-> "omitted", n |-> 0, e |-> 0, s |-> NoStr, b |-> FALSE]
Arg(given, default) == IF given = Omitted THEN default ELSE given

DefaultHost == PyStr(<<"1", "2", "7", ".", "0", ".", "0", ".", "1">>)
DefaultPort == 6379
DefaultDb == 0

\* Redis.from_url(url)
FromUrl(url) == [NoHandle EXCEPT !.via = "from_url", !.url = url]
\* RedisStore._build_redis
BuildRedis(host, port, db, password) ==
    [NoHandle EXCEPT !.via = "Redis", !.host = host, !.port = port, !.db = db,
                     !.password = password]

\* (mutant) the URL is tried before the handle
ChooseRedisUrlFirst(redis, url, host, port, db, password) ==
    IF Truthy(url) THEN FromUrl(url)
    ELSE IF redis # NoHandle THEN redis
    ELSE BuildRedis(host, port, db, password)

\* the handle RedisStore.__init__ assigns to self._redis
ChooseRedis(redis, url, host, port, db, password) ==
    IF redis # NoHandle THEN redis
    ELSE IF Truthy(url) THEN FromUrl(url)
    ELSE BuildRedis(host, port, db, password)

\* Redis.get(key): None, or the stored string as bytes (as str when the
\* client decodes responses)
RedisGet(h, db, key) ==
    IF key \notin DOMAIN db THEN PyNone
    ELSE IF h.decode THEN PyStr(db[key]) ELSE PyBytes(db[key])

\* RedisStore.read_value
RedisRead(h, db, key, default) ==
    LET v == RedisGet(h, db, key)
    IN  IF Truthy(v) THEN Return(PyStr(Str(v))) ELSE Return(default)

RedisUnchangedOthers == UNCHANGED <<dict, file, inst, writes, sync, saved>>

RedisInit(redis, url, host, port, db, password) ==
    /\ rstore' = [open |-> TRUE,
                  args |-> [redis |-> redis, url |-> url, host |-> host, port |-> port,
                            db |-> db, password |-> password],
                  _redis |-> ChooseRedis(redis, Arg(url, PyNone), Arg(host, DefaultHost),
                                         Arg(port, PyInt(DefaultPort)),
                                         Arg(db, PyInt(DefaultDb)), Arg(password, PyNone))]
    /\ last' = Call("__init__", Red, NoStr, PyNone, PyNone, Return(PyNone))
    /\ written' = [written EXCEPT ![Red] = EmptyMap]
    /\ UNCHANGED rdb
    /\ RedisUnchangedOthers

RedisReadValue(key, default) ==
    /\ rstore.open
    /\ last' = Call("read_value", Red, key, PyNone, default,
                    RedisRead(rstore._redis, rdb, key, default))
    /\ UNCHANGED <<rstore, rdb, written>>
    /\ RedisUnchangedOthers

RedisReadTyped(key, conv, default) ==
    /\ rstore.open
    /\ last' = Call(conv, Red, key, PyNone, default,
                    GenericRead(conv, RedisRead(rstore._redis, rdb, key, PyNone), default))
    /\ UNCHANGED <<rstore, rdb, written>>
    /\ RedisUnchangedOthers

RedisWriteValue(key, value) ==
    /\ rstore.open
    /\ rdb' = Put(rdb, key, Str(value))
    /\ last' = Call("write_value", Red, key, value, PyNone, Return(PyNone))
    /\ written' = [written EXCEPT ![Red] = Put(written[Red], key, Str(value))]
    /\ UNCHANGED rstore
    /\ RedisUnchangedOthers

\* RedisStore.save_config: the server's SAVE
RedisSaveConfig ==
    /\ rstore.open
    /\ last' = Call("save_config", Red, NoStr, PyNone, PyNone, Return(PyNone))
    /\ UNCHANGED <<rstore, rdb, written>>
    /\ RedisUnchangedOthers

Url == PyStr(<<"r", "e", "d", "i", "s", ":", "/", "/", "h">>)
OtherHost == PyStr(<<"h">>)
Password == PyStr(<<"p", "w">>)

\* the constructions of a RedisStore
RedisNew(handles, urls, hosts, others) ==
    \E redis \in handles, url \in urls, host \in hosts, other \in others :
        RedisInit(redis, url, host, other.port, other.db, other.password)

\* the calls on the RedisStore with the given inputs
RedisCalls(keys, values, defaults) ==
    \/ RedisSaveConfig
    \/ \E key \in keys :
        \/ \E value \in values : RedisWriteValue(key, value)
        \/ \E default \in defaults :
            \/ RedisReadValue(key, default)
            \/ \E conv \in {"int", "float", "bool"} : RedisReadTyped(key, conv, default)

RedisKeys == {<<"a">>}
RedisValues == {V_v, V_one, PyStr(NoStr)}

AllOmitted == [port |-> Omitted, db |-> Omitted, password |-> Omitted]
AllGiven == [port |-> PyInt(6380), db |-> PyInt(1), password |-> Password]

NextRedis ==
    \/ RedisNew({NoHandle, CallerHandle(FALSE), CallerHandle(TRUE)},
                {Omitted, PyNone, PyStr(NoStr), Url}, {Omitted, OtherHost},
                {AllOmitted, AllGiven, [AllOmitted EXCEPT !.port = PyInt(6380)],
                 [AllOmitted EXCEPT !.password = Password]})
    \/ RedisCalls(RedisKeys, RedisValues, {D})

\* ---------------------------------------------------------------------- Init
NoArgs == [redis |-> NoHandle, url |-> PyNone, host |-> PyNone, port |-> PyNone,
           db |-> PyNone, password |-> PyNone]

Init ==
    /\ dict = EmptyMap
    /\ file \in InitialFiles
    /\ inst = [i \in Stores |-> [open |-> FALSE, config |-> NewConfig]]
    /\ writes = 0
    /\ rstore = [open |-> FALSE, args |-> NoArgs, _redis |-> NoHandle]
    /\ rdb = EmptyMap
    /\ last = NoCall
    /\ written = [i \in {Mem, Red} \cup Stores |-> EmptyMap]
    /\ sync = {}
    /\ saved = [i \in Stores |-> EmptyMap]

NextIni == IniCalls({1}, IniKeys, IniValues, Defaults)
SpecIni == Init /\ [][NextIni]_vars

\* one store, keys that differ in case, values with blanks and "%"
NextIniRoundTrip ==
    IniCalls({1}, {K_db_k, K_db_K, K_db_host}, {V_v, V_blank_v, V_escaped, V_ref}, Defaults)
SpecIniRoundTrip == Init /\ [][NextIniRoundTrip]_vars

\* two stores on the one file
IniFileCalls(values) ==
    \E i \in Stores :
        \/ IniInit(i)
        \/ IniSaveConfig(i)
        \/ \E key \in {K_db_k, K_db_host} :
            \/ \E value \in values : IniWriteValue(i, key, value)
            \/ IniReadValue(i, key, D)

NextIniFile == IniFileCalls({V_v, V_blank_v})
SpecIniFile == Init /\ [][NextIniFile]_vars

NextIniPersist == IniFileCalls({V_v, V_escaped})
SpecIniPersist == Init /\ [][NextIniPersist]_vars

\* the typed reads of an IniStore and of a RedisStore (the generic ones)
NextCoerce ==
    \/ IniCalls({1}, {K_db_k, K_db_host}, {V_v, V_ref}, Defaults)
    \/ RedisNew({NoHandle, CallerHandle(TRUE)}, {Omitted}, {Omitted}, {AllOmitted})
    \/ RedisCalls(RedisKeys, RedisValues, Defaults)
SpecCoerce == Init /\ [][NextCoerce]_vars

SpecMem == Init /\ [][NextMem]_vars

SpecRedis == Init /\ [][NextRedis]_vars

\* ==================================================================== claims
IsIniStore(l) == l.self \in Stores
TypedReads == {"int", "float", "bool"}
IsIniRead(l) == IsIniStore(l) /\ l.op \in {"read_value"} \cup TypedReads
IsIniAccessor(l) == IsIniStore(l) /\ l.op \in {"read_value", "write_value"} \cup TypedReads

\* the field of `key` is written in the section of `key` (the DEFAULT
\* section's fields are those of the defaults)
Present(c, key) ==
    LET pk == ParseKey(key) IN
        IF pk.sec = DEFAULTSECT THEN OptionXForm(pk.field) \in DOMAIN c.defaults
        ELSE /\ HasSection(c, pk.sec)
             /\ OptionXForm(pk.field) \in DOMAIN c.sections[pk.sec]
\* the section of `key` exists and the DEFAULT section has the field
Inherited(c, key) ==
    LET pk == ParseKey(key) IN
        HasSection(c, pk.sec) /\ OptionXForm(pk.field) \in DOMAIN c.defaults

Parses(conv, s) == IF conv = "int" THEN IsInt(s) ELSE IsFloat(s)

\* C1: a MemoryStore read_value returns a string-equal form of the value last
\* written to the key, and exactly the default for a key never written.
C1_MemoryRoundTrip ==
    (last.self = Mem /\ last.op = "read_value") =>
        IF last.key \in DOMAIN written[Mem]
        THEN last.result.kind = "return" /\ Str(last.result.val) = written[Mem][last.key]
        ELSE last.result = Return(last.default)

\* C2: an IniStore read_value of a key returns the string form of the value
\* last written to that key on the same store, saved or not, whatever was
\* written to other keys since.
C2_IniRoundTrip ==
    (IsIniStore(last) /\ last.op = "read_value" /\ last.key \in DOMAIN written[last.self]) =>
        last.result = Return(PyStr(written[last.self][last.key]))

\* C3: a store constructed from the file after another store wrote and saved
\* reads every written key as the value written, and every key as the saving
\* store reads it.
C3_Persistence ==
    (IsIniStore(last) /\ last.op = "read_value" /\ last.self \in sync) =>
        \A i \in sync \ {last.self} :
            /\ last.key \in DOMAIN saved[i] => last.result = Return(PyStr(saved[i][last.key]))
            /\ saved[i] # EmptyMap => last.result = IniRead(inst[i].config, last.key, last.default)

\* C4: the file changes only in a save_config call, and a store constructed
\* at any time holds what the file holds, not what other stores wrote since.
C4_NeverAutoSaved ==
    [][/\ file' # file => last'.op = "save_config"
       /\ (IsIniStore(last') /\ last'.op = "__init__") =>
              inst'[last'.self].config = ConfigRead(file)]_vars

C4_Witness ==
    /\ IsIniStore(last)
    /\ last.op = "__init__"
    /\ \E j \in Stores \ {last.self} :
        /\ inst[j].open
        /\ j \notin sync
        /\ \E k \in DOMAIN written[j] :
            IniRead(inst[j].config, k, D) # IniRead(inst[last.self].config, k, D)

\* C5 as stated: a read of a key whose section is absent, or whose field is
\* absent from its section, returns exactly the default.
C5_AbsentYieldsDefault ==
    (IsIniRead(last) /\ ParseKey(last.key).ok /\ ~Present(inst[last.self].config, last.key)) =>
        last.result = Return(last.default)

\* C5 as amended: a read of a key whose section is absent, or whose field is
\* absent from its section and from the DEFAULT section, returns exactly the
\* default, unconverted in the typed reads; no read changes a document or
\* the file.
C5_AbsentEverywhereYieldsDefault ==
    [][IsIniRead(last') =>
          /\ inst' = inst
          /\ file' = file
          /\ (/\ ParseKey(last'.key).ok
              /\ ~Present(inst[last'.self].config, last'.key)
              /\ ~Inherited(inst[last'.self].config, last'.key)) =>
                 last'.result = Return(last'.default)]_vars

C5_Witness ==
    /\ IsIniStore(last)
    /\ last.op = "int"
    /\ ParseKey(last.key).ok
    /\ HasSection(inst[last.self].config, ParseKey(last.key).sec)
    /\ ~Present(inst[last.self].config, last.key)
    /\ last.result = Return(D)

\* C6: read_int_value and read_float_value raise ValueError when read_value
\* yields a string that does not parse, and return the default only when
\* read_value yields None, on the IniStore and on the generic accessors
\* (here over the RedisStore).
C6_CoercionFailureNotMasked ==
    /\ (IsIniStore(last) /\ last.op \in {"int", "float"}) =>
          LET rv == IniRead(inst[last.self].config, last.key, PyNone) IN
              /\ (rv.kind = "return" /\ rv.val # PyNone /\ ~Parses(last.op, rv.val.s)) =>
                     last.result = Raise("ValueError")
              /\ last.result = Return(last.default) => rv = Return(PyNone)
    /\ (last.self = Red /\ last.op \in {"int", "float"}) =>
          LET rv == RedisRead(rstore._redis, rdb, last.key, PyNone) IN
              /\ (rv.val # PyNone /\ ~Parses(last.op, rv.val.s)) =>
                     last.result = Raise("ValueError")
              /\ last.result = Return(last.default) => rv = Return(PyNone)

C6_Witness ==
    /\ IsIniStore(last)
    /\ last.op = "int"
    /\ Present(inst[last.self].config, last.key)
    /\ IniRead(inst[last.self].config, last.key, PyNone).kind = "return"
    /\ last.result = Raise("ValueError")

\* C7 as stated: write_value to a section that does not exist raises and
\* leaves the document and the file unchanged.
C7_MissingSectionFails ==
    [][(/\ IsIniStore(last')
        /\ last'.op = "write_value"
        /\ ParseKey(last'.key).ok
        /\ ~HasSection(inst[last'.self].config, ParseKey(last'.key).sec)) =>
           (last'.result.kind = "raise" /\ inst' = inst /\ file' = file)]_vars

\* C7 as amended: write_value to a section that does not exist, whose name
\* is neither empty nor DEFAULT, raises and leaves the document and the file
\* unchanged.
C7_MissingNamedSectionFails ==
    [][(/\ IsIniStore(last')
        /\ last'.op = "write_value"
        /\ ParseKey(last'.key).ok
        /\ ParseKey(last'.key).sec \notin {NoStr, DEFAULTSECT}
        /\ ~HasSection(inst[last'.self].config, ParseKey(last'.key).sec)) =>
           (last'.result.kind = "raise" /\ inst' = inst /\ file' = file)]_vars

C7_Witness ==
    /\ IsIniStore(last)
    /\ last.op = "write_value"
    /\ last.key = K_a_b_c
    /\ last.result = Raise("NoSectionError")

\* C8: a key is split at its first "." ("db.host" into db and host, "a.b.c"
\* into a and b.c); every accessor given a key without "." raises ValueError
\* and changes nothing.
C8_KeySplitting ==
    [][IsIniAccessor(last') =>
          LET key == last'.key
              pk == ParseKey(key)
          IN  /\ key = K_db_host =>
                     pk = [ok |-> TRUE, sec |-> <<"d", "b">>, field |-> <<"h", "o", "s", "t">>]
              /\ key = K_a_b_c =>
                     pk = [ok |-> TRUE, sec |-> <<"a">>, field |-> <<"b", ".", "c">>]
              /\ Contains(key, ".") =>
                     (pk.ok /\ key = pk.sec \o <<".">> \o pk.field /\ ~Contains(pk.sec, "."))
              /\ ~Contains(key, ".") =>
                     /\ ~pk.ok
                     /\ last'.result = Raise("ValueError")
                     /\ inst' = inst
                     /\ file' = file]_vars

C8_Witness ==
    /\ IsIniStore(last)
    /\ last.op = "write_value"
    /\ last.key = K_nosep
    /\ last.result = Raise("ValueError")

\* C9: a RedisStore uses the handle it is given, with or without a URL; with
\* no handle and a non-empty URL it connects from the URL; with neither it
\* connects from host, port, db and password, which default to 127.0.0.1,
\* 6379, 0 and None.
C9_ConstructionPriority ==
    rstore.open =>
        LET a == rstore.args
            r == rstore._redis
            nourl == a.url \in {Omitted, PyNone, PyStr(NoStr)}
        IN  /\ r.via \in {"caller", "from_url", "Redis"}
            /\ a.redis # NoHandle => r = a.redis /\ r.via = "caller"
            /\ (a.redis = NoHandle /\ ~nourl) =>
                   r = [NoHandle EXCEPT !.via = "from_url", !.url = a.url]
            /\ (a.redis = NoHandle /\ nourl) =>
                   /\ r.via = "Redis"
                   /\ r.url = PyNone
                   /\ r.host = IF a.host = Omitted
                               THEN PyStr(<<"1", "2", "7", ".", "0", ".", "0", ".", "1">>)
                               ELSE a.host
                   /\ r.port = IF a.port = Omitted THEN PyInt(6379) ELSE a.port
                   /\ r.db = IF a.db = Omitted THEN PyInt(0) ELSE a.db
                   /\ r.password = IF a.password = Omitted THEN PyNone ELSE a.password

C9_Witness ==
    /\ rstore.open
    /\ rstore.args.redis = CallerHandle(FALSE)
    /\ rstore.args.url = Url
    /\ rstore._redis = CallerHandle(FALSE)

\* C10: after a save_config the file is the saving store's whole document,
\* and holds nothing that document lacks, whatever other stores saved before.
C10_LastSaveWins ==
    (IsIniStore(last) /\ last.op = "save_config") =>
        /\ file = ConfigWrite(inst[last.self].config)
        /\ \A k \in {K_db_k, K_db_host} :
              IniRead(inst[last.self].config, k, D) = Return(D) =>
                  IniRead(ConfigRead(file), k, D) = Return(D)

\* two stores each wrote a key and saved; the first one's key is lost
C10_LostUpdate ==
    /\ IsIniStore(last)
    /\ last.op = "save_config"
    /\ \E j \in Stores \ {last.self} :
        \E k \in DOMAIN saved[j], k2 \in DOMAIN saved[last.self] :
            /\ k # k2
            /\ IniRead(ConfigRead(file), k, D) = Return(D)
            /\ IniRead(ConfigRead(file), k2, D) # Return(D)
====
